---- MODULE Spec2Model ----
(***************************************************************************)
(* Model of kubelet-volume-stats-exporter (src/main.go): the collection    *)
(* loop (collectLoop / collectOnce), the fetch and decode of the kubelet   *)
(* /stats/summary response (fetchStats), the projection into the six       *)
(* Prometheus gauge vectors (updateMetrics), the two operational metrics,  *)
(* a /metrics scrape that gathers the registered collectors while the loop *)
(* is running, the /health and /ready handlers, the service account token  *)
(* and the request built from it, and main from the reading of the token   *)
(* to the end of the process (signal, server.Shutdown, cancel, bind        *)
(* failure).                                                               *)
(***************************************************************************)
EXTENDS Integers, Sequences, FiniteSets, TLC

(***************************************************************************)
(* Bounds of the model.                                                    *)
(***************************************************************************)
\* number of times the ticker fires in a behaviour of Spec
MaxTicks == 2
\* number of times the ticker fires in a behaviour of SpecScrape
MaxScrapeTicks == 1

(***************************************************************************)
(* Numbers.  A uint64 is a sequence of bits, most significant first and    *)
(* without leading zeros (<<>> is 0), so that values beyond the 53 bits of *)
(* a float64 mantissa can be written.  A gauge value is the float64 that   *)
(* float64(uint64) yields; it is always an integer and is written in the   *)
(* same way.                                                               *)
(***************************************************************************)
Uint64Bits == 64
Float64MantissaBits == 53

RECURSIVE FromNat(_)
FromNat(n) == IF n = 0 THEN <<>> ELSE Append(FromNat(n \div 2), n % 2)

Zeros(n) == [i \in 1..n |-> 0]

RECURSIVE Inc(_)
Inc(b) ==
    IF Len(b) = 0 THEN <<1>>
    ELSE IF b[Len(b)] = 0 THEN [b EXCEPT ![Len(b)] = 1]
    ELSE Append(Inc(SubSeq(b, 1, Len(b) - 1)), 0)

\* float64(x) for x a uint64: round to nearest, ties to even, on 53 bits
ToFloat64(b) ==
    IF Len(b) <= Float64MantissaBits THEN b
    ELSE LET mant == SubSeq(b, 1, Float64MantissaBits)
             rest == SubSeq(b, Float64MantissaBits + 1, Len(b))
             sticky == \E i \in 2..Len(rest) : rest[i] = 1
             roundUp == rest[1] = 1 /\ (sticky \/ mant[Float64MantissaBits] = 1)
         IN  (IF roundUp THEN Inc(mant) ELSE mant) \o Zeros(Len(rest))

(***************************************************************************)
(* Optional values: a Go nil pointer is Nil, a set pointer is Some(x).     *)
(***************************************************************************)
Nil == <<>>
Some(x) == <<x>>
IsNil(o) == Len(o) = 0
Deref(o) == o[1]

(***************************************************************************)
(* The decoded data model (types StatsResponse, PodStats, PodReference,    *)
(* VolumeStats, PVCRef).                                                   *)
(***************************************************************************)
\* the six numeric fields of VolumeStats, in the order updateMetrics reads them
Fields == <<"CapacityBytes", "AvailableBytes", "UsedBytes",
            "InodesTotal", "InodesFree", "InodesUsed">>

\* the six gauge vectors, in the order updateMetrics resets and sets them
GaugeVecs == <<"volumeCapacityBytes", "volumeAvailableBytes", "volumeUsedBytes",
               "volumeInodesTotal", "volumeInodesFree", "volumeInodesUsed">>

NumKinds == 6
Kinds == 1..NumKinds

PodReference(name, namespace) == [Name |-> name, Namespace |-> namespace]
PVCRef(name, namespace) == [Name |-> name, Namespace |-> namespace]

\* the value of field number k of a decoded volume (Nil or Some(uint64))
\* a field that reads as 0 when the kubelet did not report it
FieldOf_zeroForNil(vol, k) == IF IsNil(vol[Fields[k]]) THEN Some(FromNat(0)) ELSE vol[Fields[k]]

FieldOf(vol, k) == vol[Fields[k]]

EmptyStats == [Pods |-> <<>>]

(***************************************************************************)
(* The raw response body.  A JSON value is a record with a tag t and, for  *)
(* numbers, strings, arrays and objects, a payload v; an object's payload  *)
(* is a record of its members, a member the document does not have being   *)
(* JAbsent.                                                                *)
(***************************************************************************)
JAbsent == [t |-> "absent"]
JNull == [t |-> "null"]
\* a non-negative integer literal
JNum(bits) == [t |-> "num", v |-> bits]
\* a number literal that is negative or has a fraction or an exponent
JBadNum == [t |-> "badnum"]
JStr(s) == [t |-> "str", v |-> s]
JArr(seq) == [t |-> "arr", v |-> seq]
JObj(rec) == [t |-> "obj", v |-> rec]

\* the JSON member names of the six numeric fields (struct tags of VolumeStats)
JsonKeys == <<"capacityBytes", "availableBytes", "usedBytes",
              "inodes", "inodesFree", "inodesUsed">>

ValidTimes == {"2025-01-01T00:00:00Z"}

(***************************************************************************)
(* json.Unmarshal into the Go types.  For every target type, CanDecode...  *)
(* says whether the JSON value has a shape the type accepts (if not,       *)
(* Unmarshal returns a json.UnmarshalTypeError, or the error of            *)
(* time.Time.UnmarshalJSON, whatever else it decoded) and Decode... is the *)
(* Go value that results.                                                  *)
(***************************************************************************)
\* string: absent or null leaves the zero value ""
CanDecodeString(j) == j.t \in {"absent", "null", "str"}
DecodeString(j) == IF j.t = "str" THEN j.v ELSE ""

\* time.Time: only its validity matters, the program never reads the value
CanDecodeTime(j) == j.t \in {"absent", "null"} \/ (j.t = "str" /\ j.v \in ValidTimes)

\* *uint64: absent or null leaves nil; the literal must be a non-negative
\* integer that fits 64 bits
CanDecodeUint64Ptr(j) == j.t \in {"absent", "null"} \/ (j.t = "num" /\ Len(j.v) <= Uint64Bits)
DecodeUint64Ptr(j) == IF j.t = "num" THEN Some(j.v) ELSE Nil

\* *PVCRef: an object, also one without members, allocates a PVCRef
CanDecodePVCRefPtr(j) ==
    \/ j.t \in {"absent", "null"}
    \/ j.t = "obj" /\ CanDecodeString(j.v.name) /\ CanDecodeString(j.v.namespace)
DecodePVCRefPtr(j) ==
    IF j.t = "obj"
    THEN Some(PVCRef(DecodeString(j.v.name), DecodeString(j.v.namespace)))
    ELSE Nil

ZeroVolumeStats ==
    [Name |-> "", PVCRef |-> Nil,
     CapacityBytes |-> Nil, AvailableBytes |-> Nil, UsedBytes |-> Nil,
     InodesTotal |-> Nil, InodesFree |-> Nil, InodesUsed |-> Nil]

\* VolumeStats: each struct field from the member its tag names
CanDecodeVolumeStats(j) ==
    \/ j.t = "null"
    \/ /\ j.t = "obj"
       /\ CanDecodeTime(j.v.time)
       /\ CanDecodeString(j.v.name)
       /\ CanDecodePVCRefPtr(j.v.pvcRef)
       /\ \A k \in Kinds : CanDecodeUint64Ptr(j.v[JsonKeys[k]])
DecodeVolumeStats(j) ==
    IF j.t # "obj" THEN ZeroVolumeStats
    ELSE [Name |-> DecodeString(j.v.name),
          PVCRef |-> DecodePVCRefPtr(j.v.pvcRef),
          CapacityBytes |-> DecodeUint64Ptr(j.v.capacityBytes),
          AvailableBytes |-> DecodeUint64Ptr(j.v.availableBytes),
          UsedBytes |-> DecodeUint64Ptr(j.v.usedBytes),
          InodesTotal |-> DecodeUint64Ptr(j.v.inodes),
          InodesFree |-> DecodeUint64Ptr(j.v.inodesFree),
          InodesUsed |-> DecodeUint64Ptr(j.v.inodesUsed)]

\* []VolumeStats: absent or null leaves a nil slice, anything but an array fails
CanDecodeVolumeSlice(j) ==
    \/ j.t \in {"absent", "null"}
    \/ j.t = "arr" /\ \A i \in 1..Len(j.v) : CanDecodeVolumeStats(j.v[i])
DecodeVolumeSlice(j) ==
    IF j.t = "arr" THEN [i \in 1..Len(j.v) |-> DecodeVolumeStats(j.v[i])] ELSE <<>>

\* *VolumeStats (the ephemeral-storage member): an object, never an array
CanDecodeVolumeStatsPtr(j) == j.t = "absent" \/ CanDecodeVolumeStats(j)
DecodeVolumeStatsPtr(j) == IF j.t = "obj" THEN Some(DecodeVolumeStats(j)) ELSE Nil

CanDecodePodReference(j) ==
    \/ j.t \in {"absent", "null"}
    \/ j.t = "obj" /\ CanDecodeString(j.v.name) /\ CanDecodeString(j.v.namespace)
DecodePodReference(j) ==
    IF j.t = "obj"
    THEN PodReference(DecodeString(j.v.name), DecodeString(j.v.namespace))
    ELSE PodReference("", "")

ZeroPodStats == [PodRef |-> PodReference("", ""), Volume |-> <<>>, Ephemeral |-> Nil]

CanDecodePodStats(j) ==
    \/ j.t = "null"
    \/ /\ j.t = "obj"
       /\ CanDecodePodReference(j.v.podRef)
       /\ CanDecodeVolumeSlice(j.v.volume)
       /\ CanDecodeVolumeStatsPtr(j.v.ephemeral)
DecodePodStats(j) ==
    IF j.t # "obj" THEN ZeroPodStats
    ELSE [PodRef |-> DecodePodReference(j.v.podRef),
          Volume |-> DecodeVolumeSlice(j.v.volume),
          Ephemeral |-> DecodeVolumeStatsPtr(j.v.ephemeral)]

\* []PodStats
CanDecodePodSlice(j) ==
    \/ j.t \in {"absent", "null"}
    \/ j.t = "arr" /\ \A i \in 1..Len(j.v) : CanDecodePodStats(j.v[i])
DecodePodSlice(j) ==
    IF j.t = "arr" THEN [i \in 1..Len(j.v) |-> DecodePodStats(j.v[i])] ELSE <<>>

\* json.Unmarshal(bodyBytes, &stats) (the node member is only logged and is
\* left out)
CanDecodeStatsResponse(j) == j.t = "null" \/ (j.t = "obj" /\ CanDecodePodSlice(j.v.pods))
DecodeStatsResponse(j) == IF j.t = "obj" THEN [Pods |-> DecodePodSlice(j.v.pods)] ELSE EmptyStats

\* json.Unmarshal(bodyBytes, &rawResponse) with rawResponse a map[string]interface{}
CanDecodeGenericMap(j) == j.t \in {"obj", "null"}

(***************************************************************************)
(* The responses the kubelet endpoint can give.  A response is a transport *)
(* error, or a status with a body whose read may fail, whose syntax may be *)
(* broken and whose document is a JSON value.                              *)
(***************************************************************************)
N(n) == JNum(FromNat(n))
\* 2^53 + 1, the smallest uint64 that float64 cannot hold
Big == <<1>> \o Zeros(Float64MantissaBits - 1) \o <<1>>
\* 2^64, one more than the largest uint64
TooBig == <<1>> \o Zeros(Uint64Bits)

RawPVCRef(name, namespace) == JObj([name |-> name, namespace |-> namespace])

RawVolume(name, pvcRef, nums) ==
    JObj([time |-> JStr("2025-01-01T00:00:00Z"), name |-> JStr(name), pvcRef |-> pvcRef,
          capacityBytes |-> nums[1], availableBytes |-> nums[2], usedBytes |-> nums[3],
          inodes |-> nums[4], inodesFree |-> nums[5], inodesUsed |-> nums[6]])

RawPod(name, namespace, volume, ephemeral) ==
    JObj([podRef |-> JObj([name |-> JStr(name), namespace |-> JStr(namespace)]),
          volume |-> volume, ephemeral |-> ephemeral])

RawSummary(pods) == JObj([pods |-> pods])

DataPVC == RawPVCRef(JStr("data-pvc"), JStr("storage"))
LogsPVC == RawPVCRef(JStr("logs-pvc"), JStr("kube-system"))

OnlyCapacity(n) == <<n, JAbsent, JAbsent, JAbsent, JAbsent, JAbsent>>
FullA == <<N(1000), N(400), N(600), N(50), N(30), N(20)>>
FullB == <<N(2000), N(1500), N(500), N(80), N(70), N(10)>>

\* one pod, one PVC volume with capacityBytes only; pvcRef.namespace differs
DocCapacityOnly ==
    RawSummary(JArr(<<RawPod("app-1", "default",
        JArr(<<RawVolume("data", DataPVC, OnlyCapacity(N(1000)))>>), JAbsent)>>))

\* one pod whose only volume has no pvcRef
DocNoPVC ==
    RawSummary(JArr(<<RawPod("app-1", "default",
        JArr(<<RawVolume("cache", JAbsent, FullA)>>), JAbsent)>>))

\* two volumes of one pod with the same claim; the later one lacks four
\* fields and carries a value beyond 2^53; an ephemeral-storage record
DocSamePod ==
    RawSummary(JArr(<<RawPod("app-1", "default",
        JArr(<<RawVolume("data", DataPVC, FullA),
               RawVolume("data-again", DataPVC,
                         <<N(2000), JAbsent, JNum(Big), JAbsent, JNull, JAbsent>>)>>),
        RawVolume("", LogsPVC, FullB))>>))

\* two pod records with the same podRef and the same claim, then another pod
DocTwoRecords ==
    RawSummary(JArr(<<
        RawPod("app-1", "default",
               JArr(<<RawVolume("data", DataPVC, OnlyCapacity(N(1000)))>>), JAbsent),
        RawPod("app-1", "default",
               JArr(<<RawVolume("data", DataPVC,
                                <<N(2000), JAbsent, JAbsent, N(50), JAbsent, JAbsent>>)>>),
               JNull),
        RawPod("app-2", "kube-system", JNull, JAbsent)>>))

\* a pvcRef object without a name, and a pvcRef with an empty name
DocEmptyClaimName ==
    RawSummary(JArr(<<RawPod("app-2", "kube-system",
        JArr(<<RawVolume("odd", RawPVCRef(JAbsent, JStr("kube-system")), OnlyCapacity(N(1000))),
               RawVolume("odder", RawPVCRef(JStr(""), JAbsent),
                         <<JAbsent, JAbsent, JAbsent, JAbsent, JAbsent, N(20)>>)>>),
        JAbsent)>>))

\* a volume without pvcRef next to a PVC volume whose namespace is the pod's
DocMixed ==
    RawSummary(JArr(<<RawPod("app-2", "kube-system",
        JArr(<<RawVolume("tmp", JNull, FullA),
               RawVolume("logs", LogsPVC, FullB)>>), JAbsent)>>))

DocEmptyPods == RawSummary(JArr(<<>>))
DocAbsentPods == RawSummary(JAbsent)

\* wrong shapes: pods is an object; a later volume has a negative number;
\* a number does not fit 64 bits; ephemeral-storage is an array
DocPodsObject == RawSummary(JObj([name |-> JStr("x")]))
DocBadNumber ==
    RawSummary(JArr(<<RawPod("app-1", "default",
        JArr(<<RawVolume("data", DataPVC, FullA),
               RawVolume("logs", LogsPVC,
                         <<JBadNum, JAbsent, JAbsent, JAbsent, JAbsent, JAbsent>>)>>),
        JAbsent)>>))
DocOverflow ==
    RawSummary(JArr(<<RawPod("app-1", "default",
        JArr(<<RawVolume("data", DataPVC, OnlyCapacity(JNum(TooBig)))>>), JAbsent)>>))
DocEphemeralArray ==
    RawSummary(JArr(<<RawPod("app-1", "default",
        JArr(<<RawVolume("data", DataPVC, FullA)>>), JArr(<<>>))>>))

StatusOK == 200

Response(transportErr, status, readErr, syntaxOK, doc) ==
    [transportErr |-> transportErr, status |-> status, readErr |-> readErr,
     syntaxOK |-> syntaxOK, doc |-> doc]

OK200(doc) == Response(FALSE, StatusOK, FALSE, TRUE, doc)

Responses ==
    << OK200(DocCapacityOnly),                               \* 1
       OK200(DocSamePod),                                    \* 2
       Response(FALSE, 503, FALSE, TRUE, DocMixed),          \* 3
       OK200(DocNoPVC),                                      \* 4
       OK200(DocTwoRecords),                                 \* 5
       OK200(DocEmptyClaimName),                             \* 6
       OK200(DocMixed),                                      \* 7
       OK200(DocEmptyPods),                                  \* 8
       OK200(DocAbsentPods),                                 \* 9
       OK200(JNull),                                         \* 10
       Response(TRUE, 0, FALSE, FALSE, JNull),               \* 11 transport error
       Response(FALSE, 201, FALSE, TRUE, DocCapacityOnly),   \* 12
       Response(FALSE, 401, TRUE, FALSE, JNull),             \* 13
       Response(FALSE, StatusOK, TRUE, TRUE, DocMixed),      \* 14 body read error
       Response(FALSE, StatusOK, FALSE, FALSE, JNull),       \* 15 malformed JSON
       OK200(JArr(<<>>)),                                    \* 16 top level array
       OK200(DocPodsObject),                                 \* 17
       OK200(DocBadNumber),                                  \* 18
       OK200(DocOverflow),                                   \* 19
       OK200(DocEphemeralArray) >>                           \* 20

AllResponses == 1..Len(Responses)
\* the responses of the behaviours in which /metrics is scraped
ScrapeResponses == {1, 3, 5}
ServeResponses == {1, 11}
LifeResponses == {1, 11}

(***************************************************************************)
(* fetchStats: the result is the error ("" for none) and the decoded       *)
(* StatsResponse (the empty one stands for the nil pointer of an error).   *)
(***************************************************************************)
Fetched(err, stats) == [err |-> err, stats |-> stats]

IsStatusOK_any2xx(code) == code \in 200..299

IsStatusOK(code) == code = StatusOK

\* fetchStats that ignores the error of the struct decode and goes on with
\* what it has
fetchStats_ignoresDecodeError(resp) ==
    IF resp.transportErr THEN Fetched("failed to fetch stats", EmptyStats)
    ELSE IF ~IsStatusOK(resp.status) THEN Fetched("unexpected status code", EmptyStats)
    ELSE IF resp.readErr THEN Fetched("failed to read response body", EmptyStats)
    ELSE IF ~(resp.syntaxOK /\ CanDecodeGenericMap(resp.doc))
         THEN Fetched("failed to unmarshal generic JSON", EmptyStats)
    ELSE IF ~CanDecodeStatsResponse(resp.doc) THEN Fetched("", EmptyStats)
    ELSE Fetched("", DecodeStatsResponse(resp.doc))

\* fetchStats that takes a summary without pods for an error
fetchStats_emptyIsError(resp) ==
    IF resp.transportErr THEN Fetched("failed to fetch stats", EmptyStats)
    ELSE IF ~IsStatusOK(resp.status) THEN Fetched("unexpected status code", EmptyStats)
    ELSE IF resp.readErr THEN Fetched("failed to read response body", EmptyStats)
    ELSE IF ~(resp.syntaxOK /\ CanDecodeGenericMap(resp.doc))
         THEN Fetched("failed to unmarshal generic JSON", EmptyStats)
    ELSE IF ~CanDecodeStatsResponse(resp.doc)
         THEN Fetched("failed to decode response", EmptyStats)
    ELSE IF Len(DecodeStatsResponse(resp.doc).Pods) = 0 THEN Fetched("no pods", EmptyStats)
    ELSE Fetched("", DecodeStatsResponse(resp.doc))

fetchStats(resp) ==
    IF resp.transportErr THEN Fetched("failed to fetch stats", EmptyStats)
    ELSE IF ~IsStatusOK(resp.status) THEN Fetched("unexpected status code", EmptyStats)
    ELSE IF resp.readErr THEN Fetched("failed to read response body", EmptyStats)
    ELSE IF ~(resp.syntaxOK /\ CanDecodeGenericMap(resp.doc))
         THEN Fetched("failed to unmarshal generic JSON", EmptyStats)
    ELSE IF ~CanDecodeStatsResponse(resp.doc)
         THEN Fetched("failed to decode response", EmptyStats)
    ELSE Fetched("", DecodeStatsResponse(resp.doc))

(***************************************************************************)
(* The registry: six gauge vectors, each a function from the label sets it *)
(* holds to their values, the error counter and the timestamp gauge.       *)
(***************************************************************************)
EmptyVec == <<>>

\* GaugeVec.Reset
Reset_keeps(g, k) == g

Reset_forgetsInodesUsed(g, k) == IF k = 6 THEN g ELSE [g EXCEPT ![k] = EmptyVec]

\* a Reset that leaves volumeCapacityBytes as it is when the vector has
\* observations of one claim only
Reset_keepsSingleClaim(g, k) ==
    IF k = 1 /\ Cardinality({l.persistentvolumeclaim : l \in DOMAIN g[k]}) = 1 THEN g
    ELSE [g EXCEPT ![k] = EmptyVec]

Reset(g, k) == [g EXCEPT ![k] = EmptyVec]

\* GaugeVec.With(labels).Set(value), taken as one step: the child that With
\* creates is not seen before Set has stored the value
WithSet_keepsFirst(g, k, labels, value) == [g EXCEPT ![k] = @ @@ (labels :> value)]

WithSet(g, k, labels, value) == [g EXCEPT ![k] = (labels :> value) @@ @]

\* the prometheus.Labels updateMetrics builds for a PVC volume of a pod
Labels_pvcNamespace(pod, volume) ==
    [namespace |-> Deref(volume.PVCRef).Namespace,
     persistentvolumeclaim |-> Deref(volume.PVCRef).Name,
     pod |-> pod.PodRef.Name]

\* labels that also name the volume
Labels_withVolume(pod, volume) ==
    [namespace |-> pod.PodRef.Namespace,
     persistentvolumeclaim |-> Deref(volume.PVCRef).Name,
     pod |-> pod.PodRef.Name,
     volume |-> volume.Name]

Labels(pod, volume) ==
    [namespace |-> pod.PodRef.Namespace,
     persistentvolumeclaim |-> Deref(volume.PVCRef).Name,
     pod |-> pod.PodRef.Name]

\* the volumes in the order the two nested range loops of updateMetrics visit them
RECURSIVE VolumeList(_, _)
VolumeList(pods, p) ==
    IF p > Len(pods) THEN <<>>
    ELSE [v \in 1..Len(pods[p].Volume) |-> [p |-> p, v |-> v]] \o VolumeList(pods, p + 1)

(***************************************************************************)
(* The service account token and the request of fetchStats.  The file at   *)
(* tokenPath is unreadable (Nil) or has a content; the header value        *)
(* "Bearer "+token is the pair of its two parts.                           *)
(***************************************************************************)
TokenFiles == {Nil, Some(""), Some("token-a"), Some("token-b")}

\* os.ReadFile and string(token): the content as it is, "" with an error
readToken(file) ==
    IF IsNil(file) THEN [token |-> "", err |-> TRUE]
    ELSE [token |-> Deref(file), err |-> FALSE]

Bearer(token) == <<"Bearer", token>>

\* a request that carries the header whatever the token is
NewRequest_alwaysBearer(token) ==
    [method |-> "GET", path |-> "/stats/summary", Authorization |-> Some(Bearer(token))]

\* http.NewRequest, and the header that is set if c.token != ""
NewRequest(token) ==
    [method |-> "GET", path |-> "/stats/summary",
     Authorization |-> IF token # "" THEN Some(Bearer(token)) ELSE Nil]

VARIABLES
    gauges,               \* the six GaugeVecs
    scrapeErrorsTotal,    \* the Counter
    lastScrapeTimestamp,  \* the Gauge
    pc,                   \* where collectLoop is
    stats,                \* the *StatsResponse collectOnce holds
    cursor,               \* where updateMetrics is: volume i of the list, kind k
    now,                  \* the clock, in scrape intervals
    tickPending,          \* a tick is buffered in ticker.C
    hist,                 \* history: what the polls so far were, the ticks fired
    rpc,                  \* where the /metrics handler is
    got,                  \* what the handler's Gather has collected so far
    tokenFile,            \* the file at tokenPath
    token,                \* c.token
    request,              \* the last request fetchStats has built
    inFlight,             \* the calls of collectOnce that have not returned
    main,                 \* where main is
    server,               \* the http.Server
    ctxDone,              \* ctx of collectLoop is cancelled
    probe                 \* the last response of /health or /ready

vars == <<gauges, scrapeErrorsTotal, lastScrapeTimestamp, pc, stats, cursor,
          now, tickPending, hist, rpc, got,
          tokenFile, token, request, inFlight, main, server, ctxDone, probe>>

registry == <<gauges, scrapeErrorsTotal, lastScrapeTimestamp>>
scraper == <<rpc, got>>
credential == <<tokenFile, token>>
lifecycle == <<main, server, ctxDone>>

\* the collectors init registers: the six vectors, the counter, the gauge
NumCollectors == 8
Collectors == 1..NumCollectors
ErrorsCollector == 7
TimestampCollector == 8

Init ==
    /\ gauges = [k \in Kinds |-> EmptyVec]
    /\ scrapeErrorsTotal = 0
    /\ lastScrapeTimestamp = 0
    /\ pc = "start"
    /\ stats = EmptyStats
    /\ cursor = [i |-> 1, k |-> 1]
    /\ now = 1
    /\ tickPending = FALSE
    /\ hist = [resp |-> 0, cur |-> 0, ok |-> 0, prev |-> 0, failed |-> 0, succeeded |-> 0,
               file |-> Nil, fired |-> 0]
    /\ rpc = "idle"
    /\ got = [c \in Collectors |-> Nil]
    /\ tokenFile = Some("token-a")
    /\ token = ""
    /\ request = Nil
    /\ inFlight = 0
    /\ main = "boot"
    /\ server = "init"
    /\ ctxDone = FALSE
    /\ probe = Nil

(***************************************************************************)
(* main, the goroutine of server.ListenAndServe, and the file at tokenPath *)
(***************************************************************************)
\* token, err := readToken(*tokenPath): an error is logged as a warning.  Then
\* the collector is built with the token, collectLoop and the server
\* goroutine are launched, and main waits on sigChan.
ReadToken ==
    /\ main = "boot"
    /\ token' = readToken(tokenFile).token
    /\ hist' = [hist EXCEPT !.file = tokenFile]
    /\ main' = "wait"
    /\ UNCHANGED <<registry, pc, stats, cursor, now, tickPending, scraper,
                   tokenFile, request, inFlight, server, ctxDone, probe>>

\* the file at tokenPath is rewritten, removed or made readable
WriteTokenFile ==
    /\ \E file \in TokenFiles : file # tokenFile /\ tokenFile' = file
    /\ UNCHANGED <<registry, pc, stats, cursor, now, tickPending, hist, scraper,
                   token, request, inFlight, lifecycle, probe>>

\* server.ListenAndServe has bound the port and serves
ListenAndServe ==
    /\ main = "wait"
    /\ server = "init"
    /\ server' = "listening"
    /\ UNCHANGED <<registry, pc, stats, cursor, now, tickPending, hist, scraper,
                   credential, request, inFlight, main, ctxDone, probe>>

\* server.ListenAndServe returns an error that is not ErrServerClosed:
\* logger.Fatal logs and calls os.Exit(1), which ends every goroutine
BindFail ==
    /\ main \in {"wait", "shutdown"}
    /\ server = "init"
    /\ main' = "exit1"
    /\ server' = "closed"
    /\ pc' = "killed"
    /\ inFlight' = 0
    /\ UNCHANGED <<registry, stats, cursor, now, tickPending, hist, scraper,
                   credential, request, ctxDone, probe>>

\* <-sigChan, and server.Shutdown closes the listeners
Signal ==
    /\ main = "wait"
    /\ main' = "shutdown"
    /\ server' = IF server = "listening" THEN "draining" ELSE server
    /\ UNCHANGED <<registry, pc, stats, cursor, now, tickPending, hist, scraper,
                   credential, request, inFlight, ctxDone, probe>>

\* a Shutdown without the deadline of shutdownCtx
Shutdown_unbounded ==
    /\ main = "shutdown"
    /\ rpc = "idle"
    /\ main' = "return"
    /\ server' = "closed"
    /\ UNCHANGED <<registry, pc, stats, cursor, now, tickPending, hist, scraper,
                   credential, request, inFlight, ctxDone, probe>>

\* server.Shutdown returns: the connections are idle, or the 5 s are over
Shutdown ==
    /\ main = "shutdown"
    /\ main' = "return"
    /\ server' = "closed"
    /\ UNCHANGED <<registry, pc, stats, cursor, now, tickPending, hist, scraper,
                   credential, request, inFlight, ctxDone, probe>>

\* main returns: the deferred shutdownCancel() and cancel() run
Cancel ==
    /\ main = "return"
    /\ main' = "cancelled"
    /\ ctxDone' = TRUE
    /\ UNCHANGED <<registry, pc, stats, cursor, now, tickPending, hist, scraper,
                   credential, request, inFlight, server, probe>>

\* the deferred logger.Sync() has run and the process exits with status 0:
\* the goroutines of the loop and of a handler that still runs end with it
Exit ==
    /\ main = "cancelled"
    /\ main' = "exit0"
    /\ pc' = "killed"
    /\ rpc' = IF rpc = "gathering" THEN "killed" ELSE rpc
    /\ inFlight' = 0
    /\ UNCHANGED <<registry, stats, cursor, now, tickPending, hist, got,
                   credential, request, server, ctxDone, probe>>

(***************************************************************************)
(* collectLoop                                                             *)
(***************************************************************************)
\* time.NewTicker, then the collection on startup
Start ==
    /\ main # "boot"
    /\ pc = "start"
    /\ pc' = "fetch"
    /\ inFlight' = inFlight + 1
    /\ hist' = [hist EXCEPT !.fired = 0]
    /\ UNCHANGED <<registry, stats, cursor, now, tickPending, scraper,
                   credential, request, lifecycle, probe>>

\* the ticker fires: ticker.C holds one tick, a tick that finds it full is dropped
TimerFire(maxTicks) ==
    /\ pc \notin {"start", "returned", "killed"}
    /\ now < 1 + maxTicks
    /\ now' = now + 1
    /\ tickPending' = TRUE
    /\ hist' = [hist EXCEPT !.fired = @ + 1]
    /\ UNCHANGED <<registry, pc, stats, cursor, scraper,
                   credential, request, inFlight, lifecycle, probe>>

\* a loop that does not wait for the ticker
LoopTick_busy ==
    /\ pc = "idle"
    /\ tickPending' = FALSE
    /\ pc' = "fetch"
    /\ inFlight' = inFlight + 1
    /\ hist' = [hist EXCEPT !.fired = 0]
    /\ UNCHANGED <<registry, stats, cursor, now, scraper,
                   credential, request, lifecycle, probe>>

\* a loop that starts a collection on every tick, beside the one that runs
LoopTick_overlapping ==
    /\ pc \in {"idle", "fetch", "reset", "write", "stamp"}
    /\ tickPending
    /\ tickPending' = FALSE
    /\ pc' = "fetch"
    /\ inFlight' = inFlight + 1
    /\ hist' = [hist EXCEPT !.fired = 0]
    /\ UNCHANGED <<registry, stats, cursor, now, scraper,
                   credential, request, lifecycle, probe>>

\* a loop that gives up after two failed collections
LoopTick_givesUp ==
    /\ pc = "idle"
    /\ hist.failed < 2
    /\ tickPending
    /\ tickPending' = FALSE
    /\ pc' = "fetch"
    /\ inFlight' = inFlight + 1
    /\ hist' = [hist EXCEPT !.fired = 0]
    /\ UNCHANGED <<registry, stats, cursor, now, scraper,
                   credential, request, lifecycle, probe>>

\* a ticker whose channel queues every tick: one is left after the receive
\* when two or more have fired since the last collection began
LoopTick_queued ==
    /\ pc = "idle"
    /\ tickPending
    /\ tickPending' = (hist.fired >= 2)
    /\ pc' = "fetch"
    /\ inFlight' = inFlight + 1
    /\ hist' = [hist EXCEPT !.fired = IF @ >= 2 THEN @ - 1 ELSE 0]
    /\ UNCHANGED <<registry, stats, cursor, now, scraper,
                   credential, request, lifecycle, probe>>

\* case <-ticker.C
LoopTick ==
    /\ pc = "idle"
    /\ tickPending
    /\ tickPending' = FALSE
    /\ pc' = "fetch"
    /\ inFlight' = inFlight + 1
    /\ hist' = [hist EXCEPT !.fired = 0]
    /\ UNCHANGED <<registry, stats, cursor, now, scraper,
                   credential, request, lifecycle, probe>>

\* case <-ctx.Done(): return, and the deferred ticker.Stop()
Done ==
    /\ pc = "idle"
    /\ ctxDone
    /\ pc' = "returned"
    /\ UNCHANGED <<registry, stats, cursor, now, tickPending, hist, scraper,
                   credential, request, inFlight, lifecycle, probe>>

(***************************************************************************)
(* collectOnce                                                             *)
(***************************************************************************)
\* fetchStats returned an error
FetchError_resets(ids) ==
    /\ pc = "fetch"
    /\ \E i \in ids :
         /\ fetchStats(Responses[i]).err # ""
         /\ hist' = [hist EXCEPT !.resp = i, !.failed = @ + 1]
    /\ scrapeErrorsTotal' = scrapeErrorsTotal + 1
    /\ gauges' = [k \in Kinds |-> EmptyVec]
    /\ pc' = "idle"
    /\ request' = Some(NewRequest(token))
    /\ inFlight' = inFlight - 1
    /\ UNCHANGED <<lastScrapeTimestamp, stats, cursor, now, tickPending, scraper,
                   credential, lifecycle, probe>>

FetchError_uncounted(ids) ==
    /\ pc = "fetch"
    /\ \E i \in ids :
         /\ fetchStats(Responses[i]).err # ""
         /\ hist' = [hist EXCEPT !.resp = i, !.failed = @ + 1]
         /\ scrapeErrorsTotal' = IF Responses[i].readErr THEN scrapeErrorsTotal
                                 ELSE scrapeErrorsTotal + 1
    /\ pc' = "idle"
    /\ request' = Some(NewRequest(token))
    /\ inFlight' = inFlight - 1
    /\ UNCHANGED <<gauges, lastScrapeTimestamp, stats, cursor, now, tickPending, scraper,
                   credential, lifecycle, probe>>

FetchError_stamps(ids) ==
    /\ pc = "fetch"
    /\ \E i \in ids :
         /\ fetchStats(Responses[i]).err # ""
         /\ hist' = [hist EXCEPT !.resp = i, !.failed = @ + 1]
    /\ scrapeErrorsTotal' = scrapeErrorsTotal + 1
    /\ lastScrapeTimestamp' = now
    /\ pc' = "idle"
    /\ request' = Some(NewRequest(token))
    /\ inFlight' = inFlight - 1
    /\ UNCHANGED <<gauges, stats, cursor, now, tickPending, scraper,
                   credential, lifecycle, probe>>

\* a collectOnce that ends the process when the kubelet cannot be reached
FetchError_fatal(ids) ==
    /\ pc = "fetch"
    /\ \E i \in ids :
         /\ fetchStats(Responses[i]).err # ""
         /\ hist' = [hist EXCEPT !.resp = i, !.failed = @ + 1]
    /\ scrapeErrorsTotal' = scrapeErrorsTotal + 1
    /\ pc' = "killed"
    /\ main' = "exit1"
    /\ server' = "closed"
    /\ request' = Some(NewRequest(token))
    /\ inFlight' = 0
    /\ UNCHANGED <<gauges, lastScrapeTimestamp, stats, cursor, now, tickPending, scraper,
                   credential, ctxDone, probe>>

FetchError(ids) ==
    /\ pc = "fetch"
    /\ \E i \in ids :
         /\ fetchStats(Responses[i]).err # ""
         /\ hist' = [hist EXCEPT !.resp = i, !.failed = @ + 1]
    /\ scrapeErrorsTotal' = scrapeErrorsTotal + 1
    /\ pc' = "idle"
    /\ request' = Some(NewRequest(token))
    /\ inFlight' = inFlight - 1
    /\ UNCHANGED <<gauges, lastScrapeTimestamp, stats, cursor, now, tickPending, scraper,
                   credential, lifecycle, probe>>

\* a collectOnce that sets the timestamp before updateMetrics
FetchSuccess_stampsFirst(ids) ==
    /\ pc = "fetch"
    /\ \E i \in ids :
         /\ fetchStats(Responses[i]).err = ""
         /\ stats' = fetchStats(Responses[i]).stats
         /\ hist' = [hist EXCEPT !.resp = i, !.cur = i]
    /\ pc' = "reset"
    /\ request' = Some(NewRequest(token))
    /\ cursor' = [i |-> 1, k |-> 1]
    /\ lastScrapeTimestamp' = now
    /\ UNCHANGED <<gauges, scrapeErrorsTotal, now, tickPending, scraper,
                   credential, inFlight, lifecycle, probe>>

\* fetchStats returned a StatsResponse: updateMetrics begins
FetchSuccess(ids) ==
    /\ pc = "fetch"
    /\ \E i \in ids :
         /\ fetchStats(Responses[i]).err = ""
         /\ stats' = fetchStats(Responses[i]).stats
         /\ hist' = [hist EXCEPT !.resp = i, !.cur = i]
    /\ pc' = "reset"
    /\ request' = Some(NewRequest(token))
    /\ cursor' = [i |-> 1, k |-> 1]
    /\ UNCHANGED <<registry, now, tickPending, scraper,
                   credential, inFlight, lifecycle, probe>>

(***************************************************************************)
(* updateMetrics                                                           *)
(***************************************************************************)
\* if volume.PVCRef == nil { continue }
Exported(volume) == ~IsNil(volume.PVCRef)

\* the volume at place i of the iteration, and its pod
PodAt(s, i) == s.Pods[VolumeList(s.Pods, 1)[i].p]
VolumeAt(s, i) == PodAt(s, i).Volume[VolumeList(s.Pods, 1)[i].v]

\* The next place at or after (volume i, kind k) where updateMetrics calls
\* Set: the volume passes the PVCRef test and its field k is not nil.  The
\* places in between change nothing but the position of the loop.  When no
\* place is left, i is past the last volume.
RECURSIVE NextSet(_, _, _)
NextSet(s, i, k) ==
    IF i > Len(VolumeList(s.Pods, 1)) THEN [i |-> i, k |-> 1]
    ELSE IF ~Exported(VolumeAt(s, i)) THEN NextSet(s, i + 1, 1)
    ELSE IF ~IsNil(FieldOf(VolumeAt(s, i), k)) THEN [i |-> i, k |-> k]
    ELSE IF k < NumKinds THEN NextSet(s, i, k + 1)
    ELSE NextSet(s, i + 1, 1)

LoopsDone(s, c) == c.i > Len(VolumeList(s.Pods, 1))

\* an updateMetrics that also publishes the capacity of the ephemeral-storage
\* records that name a claim
EphemeralPods(s) ==
    {p \in 1..Len(s.Pods) :
        /\ ~IsNil(s.Pods[p].Ephemeral)
        /\ ~IsNil(Deref(s.Pods[p].Ephemeral).PVCRef)
        /\ ~IsNil(Deref(s.Pods[p].Ephemeral).CapacityBytes)}
EphemeralCapacity(s) ==
    [l \in {Labels(s.Pods[p], Deref(s.Pods[p].Ephemeral)) : p \in EphemeralPods(s)} |->
        ToFloat64(Deref(Deref(s.Pods[
            CHOOSE p \in EphemeralPods(s) :
                Labels(s.Pods[p], Deref(s.Pods[p].Ephemeral)) = l].Ephemeral).CapacityBytes))]
ResetGauge_thenEphemeral ==
    /\ pc = "reset"
    /\ gauges' = IF cursor.k < NumKinds THEN Reset(gauges, cursor.k)
                 ELSE [Reset(gauges, cursor.k) EXCEPT ![1] = EphemeralCapacity(stats) @@ @]
    /\ IF cursor.k < NumKinds
       THEN /\ cursor' = [cursor EXCEPT !.k = @ + 1]
            /\ pc' = pc
       ELSE /\ cursor' = NextSet(stats, 1, 1)
            /\ pc' = IF LoopsDone(stats, NextSet(stats, 1, 1)) THEN "stamp" ELSE "write"
    /\ UNCHANGED <<scrapeErrorsTotal, lastScrapeTimestamp, stats, now, tickPending,
                   hist, scraper,
                   credential, request, inFlight, lifecycle, probe>>

\* one of the six Reset calls; after the last, the loops run to their first Set
ResetGauge ==
    /\ pc = "reset"
    /\ gauges' = Reset(gauges, cursor.k)
    /\ IF cursor.k < NumKinds
       THEN /\ cursor' = [cursor EXCEPT !.k = @ + 1]
            /\ pc' = pc
       ELSE /\ cursor' = NextSet(stats, 1, 1)
            /\ pc' = IF LoopsDone(stats, NextSet(stats, 1, 1)) THEN "stamp" ELSE "write"
    /\ UNCHANGED <<scrapeErrorsTotal, lastScrapeTimestamp, stats, now, tickPending,
                   hist, scraper,
                   credential, request, inFlight, lifecycle, probe>>

\* vec.With(labels).Set(float64(*volume.X)), and the loops run to the next Set
SetGauge ==
    /\ pc = "write"
    /\ gauges' = WithSet(gauges, cursor.k,
                         Labels(PodAt(stats, cursor.i), VolumeAt(stats, cursor.i)),
                         ToFloat64(Deref(FieldOf(VolumeAt(stats, cursor.i), cursor.k))))
    /\ LET next == IF cursor.k < NumKinds
                   THEN NextSet(stats, cursor.i, cursor.k + 1)
                   ELSE NextSet(stats, cursor.i + 1, 1)
       IN  /\ cursor' = next
           /\ pc' = IF LoopsDone(stats, next) THEN "stamp" ELSE "write"
    /\ UNCHANGED <<scrapeErrorsTotal, lastScrapeTimestamp, stats, now, tickPending,
                   hist, scraper,
                   credential, request, inFlight, lifecycle, probe>>

\* lastScrapeTimestamp.SetToCurrentTime(), and collectOnce returns
SetTimestamp ==
    /\ pc = "stamp"
    /\ lastScrapeTimestamp' = now
    /\ pc' = "idle"
    /\ inFlight' = inFlight - 1
    /\ stats' = EmptyStats
    /\ hist' = [hist EXCEPT !.cur = 0, !.ok = hist.cur, !.prev = hist.ok,
                            !.succeeded = @ + 1]
    /\ UNCHANGED <<gauges, scrapeErrorsTotal, cursor, now, tickPending, scraper,
                   credential, request, lifecycle, probe>>

(***************************************************************************)
(* The /metrics handler: Gather collects from the eight collectors, in no  *)
(* fixed order and while collectLoop runs; each Collect reads one vector   *)
(* (or the counter, or the gauge) under that collector's own lock.         *)
(***************************************************************************)
\* a handler that collects on demand when the loop is idle
ScrapeBegin_collects ==
    /\ server = "listening"
    /\ rpc = "idle"
    /\ rpc' = "gathering"
    /\ pc' = IF pc = "idle" THEN "fetch" ELSE pc
    /\ inFlight' = IF pc = "idle" THEN inFlight + 1 ELSE inFlight
    /\ UNCHANGED <<registry, stats, cursor, now, tickPending, hist, got,
                   credential, request, lifecycle, probe>>

ScrapeBegin ==
    /\ server = "listening"
    /\ rpc = "idle"
    /\ rpc' = "gathering"
    /\ UNCHANGED <<registry, pc, stats, cursor, now, tickPending, hist, got,
                   credential, request, inFlight, lifecycle, probe>>

Collect(c) ==
    IF c = ErrorsCollector THEN scrapeErrorsTotal
    ELSE IF c = TimestampCollector THEN lastScrapeTimestamp
    ELSE gauges[c]

ScrapeCollect ==
    /\ rpc = "gathering"
    /\ \E c \in Collectors :
         /\ IsNil(got[c])
         /\ got' = [got EXCEPT ![c] = Some(Collect(c))]
    /\ UNCHANGED <<registry, pc, stats, cursor, now, tickPending, hist, rpc,
                   credential, request, inFlight, lifecycle, probe>>

Gathered == rpc = "gathering" /\ \A c \in Collectors : ~IsNil(got[c])

\* a handler that empties the vectors it has served
ScrapeEnd_clears ==
    /\ Gathered
    /\ rpc' = "idle"
    /\ got' = [c \in Collectors |-> Nil]
    /\ gauges' = [k \in Kinds |-> EmptyVec]
    /\ UNCHANGED <<scrapeErrorsTotal, lastScrapeTimestamp, pc, stats, cursor, now,
                   tickPending, hist,
                   credential, request, inFlight, lifecycle, probe>>

\* the response is written
ScrapeEnd ==
    /\ Gathered
    /\ rpc' = "idle"
    /\ got' = [c \in Collectors |-> Nil]
    /\ UNCHANGED <<registry, pc, stats, cursor, now, tickPending, hist,
                   credential, request, inFlight, lifecycle, probe>>

(***************************************************************************)
(* /health and /ready                                                      *)
(***************************************************************************)
healthHandler == [code |-> StatusOK, body |-> "OK"]

\* a readiness that waits for the first successful collection
readyHandler_afterFirstScrape ==
    IF lastScrapeTimestamp = 0 THEN [code |-> 503, body |-> "Not Ready"]
    ELSE [code |-> StatusOK, body |-> "Ready"]

readyHandler == [code |-> StatusOK, body |-> "Ready"]

\* the two HandleFunc patterns of the mux
ProbePaths == {"/health", "/ready"}
ServeMux(path) == IF path = "/health" THEN healthHandler ELSE readyHandler

\* a request of /health or /ready is served
Probe ==
    /\ server = "listening"
    /\ \E path \in ProbePaths :
         probe' = Some([path |-> path, code |-> ServeMux(path).code,
                        body |-> ServeMux(path).body])
    /\ UNCHANGED <<registry, pc, stats, cursor, now, tickPending, hist, scraper,
                   credential, request, inFlight, lifecycle>>

Next ==
    \/ ReadToken
    \/ Start
    \/ TimerFire(MaxTicks)
    \/ LoopTick
    \/ FetchError(AllResponses)
    \/ FetchSuccess(AllResponses)
    \/ ResetGauge
    \/ SetGauge
    \/ SetTimestamp

\* the collection loop and the kubelet, with no /metrics request
Spec == Init /\ [][Next]_vars

NextScrape ==
    \/ ReadToken
    \/ ListenAndServe
    \/ Start
    \/ TimerFire(MaxScrapeTicks)
    \/ LoopTick
    \/ FetchError(ScrapeResponses)
    \/ FetchSuccess(ScrapeResponses)
    \/ ResetGauge
    \/ SetGauge
    \/ SetTimestamp
    \/ ScrapeBegin
    \/ ScrapeCollect
    \/ ScrapeEnd

\* the collection loop and /metrics requests running beside it
SpecScrape == Init /\ [][NextScrape]_vars

NextServe ==
    \/ ReadToken
    \/ ListenAndServe
    \/ Start
    \/ TimerFire(MaxScrapeTicks)
    \/ LoopTick
    \/ FetchError(ServeResponses)
    \/ FetchSuccess(ServeResponses)
    \/ ResetGauge
    \/ SetGauge
    \/ SetTimestamp
    \/ ScrapeBegin
    \/ ScrapeCollect
    \/ ScrapeEnd
    \/ Probe

\* the collection loop and requests of the three routes running beside it
SpecServe == Init /\ [][NextServe]_vars

NextLife ==
    \/ ReadToken
    \/ ListenAndServe
    \/ BindFail
    \/ Signal
    \/ Shutdown
    \/ Cancel
    \/ Exit
    \/ Start
    \/ TimerFire(MaxTicks)
    \/ LoopTick
    \/ Done
    \/ FetchError(LifeResponses)
    \/ FetchSuccess(LifeResponses)
    \/ ResetGauge
    \/ SetGauge
    \/ SetTimestamp

\* the collection loop from the start of the process to its end
SpecLife == Init /\ [][NextLife]_vars

\* the goroutine of collectLoop is scheduled when its select can proceed
SpecLifeFair == SpecLife /\ WF_vars(LoopTick \/ Done)

NextToken ==
    \/ ReadToken
    \/ WriteTokenFile
    \/ Start
    \/ TimerFire(MaxTicks)
    \/ LoopTick
    \/ FetchError(LifeResponses)
    \/ FetchSuccess(LifeResponses)
    \/ ResetGauge
    \/ SetGauge
    \/ SetTimestamp

NextStop ==
    \/ ReadToken
    \/ ListenAndServe
    \/ BindFail
    \/ Signal
    \/ Shutdown
    \/ Cancel
    \/ Exit
    \/ Start
    \/ Done
    \/ FetchError(LifeResponses)
    \/ FetchSuccess(LifeResponses)
    \/ ResetGauge
    \/ SetGauge
    \/ SetTimestamp
    \/ ScrapeBegin
    \/ ScrapeCollect
    \/ ScrapeEnd

\* the end of the process with the first collection in flight and /metrics
\* requests outstanding, before the ticker fires: once the signal
\* is received main is not blocked (server.Shutdown has a deadline of 5 s,
\* the deferred calls return), so each of its steps is taken
SpecStop ==
    /\ Init /\ [][NextStop]_vars
    /\ WF_vars(Shutdown) /\ WF_vars(Cancel) /\ WF_vars(Exit)

\* the collection loop and a token file that changes
SpecToken == Init /\ [][NextToken]_vars

(***************************************************************************)
(* Vocabulary of the properties.                                           *)
(***************************************************************************)
\* the snapshot response i decodes to (0: no response yet)
Snapshot(i) == IF i = 0 THEN EmptyStats ELSE DecodeStatsResponse(Responses[i].doc)

\* response i is a failure of one of the four kinds
TransportError(i) == Responses[i].transportErr
StatusError(i) == ~Responses[i].transportErr /\ Responses[i].status # 200
BodyReadError(i) ==
    ~Responses[i].transportErr /\ Responses[i].status = 200 /\ Responses[i].readErr
DecodeError(i) ==
    /\ ~Responses[i].transportErr /\ Responses[i].status = 200 /\ ~Responses[i].readErr
    /\ \/ ~Responses[i].syntaxOK
       \/ Responses[i].doc.t \notin {"obj", "null"}
       \/ ~CanDecodeStatsResponse(Responses[i].doc)
Failure(i) == TransportError(i) \/ StatusError(i) \/ BodyReadError(i) \/ DecodeError(i)

\* the body of response i is a well-formed snapshot
WellFormedBody(i) ==
    /\ Responses[i].syntaxOK /\ Responses[i].doc.t = "obj"
    /\ CanDecodeStatsResponse(Responses[i].doc)

\* the step in which fetchStats returns, and the step in which a poll ends
FetchReturns == pc = "fetch" /\ pc' \in {"idle", "reset"}
PollFails == FetchReturns /\ Failure(hist'.resp)
PollSucceeds == pc = "stamp" /\ pc' = "idle"

\* the most recent poll has completed and was successful / was a failure
AfterSuccess == hist.resp # 0 /\ hist.cur = 0 /\ hist.ok = hist.resp /\ ~Failure(hist.resp)
AfterFailure == hist.resp # 0 /\ hist.cur = 0 /\ Failure(hist.resp)

\* the volumes of snapshot s, by their place in the iteration
Places(s) == 1..Len(VolumeList(s.Pods, 1))
HasPVC(s, i) == Len(VolumeAt(s, i).PVCRef) = 1
Present(s, i, k) == Len(VolumeAt(s, i)[Fields[k]]) = 1
Value(s, i, k) == VolumeAt(s, i)[Fields[k]][1]

\* the label triple of a PVC volume: the pod's namespace, the claim's name, the pod's name
Triple(s, i) ==
    [namespace |-> PodAt(s, i).PodRef.Namespace,
     persistentvolumeclaim |-> VolumeAt(s, i).PVCRef[1].Name,
     pod |-> PodAt(s, i).PodRef.Name]

\* the PVC volumes of s that have field k and map to the triple l
Sources(s, k, l) == {i \in Places(s) : HasPVC(s, i) /\ Present(s, i, k) /\ Triple(s, i) = l}
Last(S) == CHOOSE i \in S : \A j \in S : j <= i

\* the complete observation set of snapshot s
Projection(s) ==
    [k \in Kinds |->
        [l \in {Triple(s, i) : i \in {j \in Places(s) : HasPVC(s, j) /\ Present(s, j, k)}}
            |-> ToFloat64(Value(s, Last(Sources(s, k, l)), k))]]

\* the observations a registry content g publishes
Observations(g) == UNION {{<<GaugeVecs[k], l, g[k][l]>> : l \in DOMAIN g[k]} : k \in Kinds}
NoObservations(g) == \A k \in Kinds : DOMAIN g[k] = {}

\* C1 (as stated): after a successful poll every present numeric field of every
\* PVC volume has an observation under (pod namespace, claim name, pod name)
\* whose value is the field's value.
C1_AsStated ==
    AfterSuccess =>
        \A i \in Places(Snapshot(hist.ok)) : \A k \in Kinds :
            (HasPVC(Snapshot(hist.ok), i) /\ Present(Snapshot(hist.ok), i, k)) =>
                /\ Triple(Snapshot(hist.ok), i) \in DOMAIN gauges[k]
                /\ gauges[k][Triple(Snapshot(hist.ok), i)] = Value(Snapshot(hist.ok), i, k)

\* C1 (amended): after a successful poll every present numeric field of every
\* PVC volume has an observation of the matching kind under (pod namespace,
\* claim name, pod name); its value is the float64 conversion of that field of
\* the last volume in iteration order that maps to the same triple and has the
\* field; and every observation carries such a triple, never one built from
\* pvcRef.namespace.
C1_LabelsAndValues ==
    AfterSuccess =>
        LET s == Snapshot(hist.ok)
        IN  /\ \A i \in Places(s) : \A k \in Kinds :
                 (HasPVC(s, i) /\ Present(s, i, k)) =>
                    /\ Triple(s, i) \in DOMAIN gauges[k]
                    /\ gauges[k][Triple(s, i)]
                         = ToFloat64(Value(s, Last(Sources(s, k, Triple(s, i))), k))
            /\ \A k \in Kinds : \A l \in DOMAIN gauges[k] :
                 \E i \in Places(s) : HasPVC(s, i) /\ l = Triple(s, i)

\* a poll has published a volume whose claim lives in another namespace than
\* the pod, and a value that float64 rounds
C1_Witness ==
    /\ AfterSuccess
    /\ \E i \in Places(Snapshot(hist.ok)) : \E k \in Kinds :
         /\ HasPVC(Snapshot(hist.ok), i) /\ Present(Snapshot(hist.ok), i, k)
         /\ VolumeAt(Snapshot(hist.ok), i).PVCRef[1].Namespace
              # PodAt(Snapshot(hist.ok), i).PodRef.Namespace
         /\ Len(Value(Snapshot(hist.ok), i, k)) > Float64MantissaBits
         /\ gauges[k][Triple(Snapshot(hist.ok), i)] # Value(Snapshot(hist.ok), i, k)

\* C2: a failed poll (transport error, non-200 status, body read error, decode
\* error) leaves the published observations exactly as they were and changes
\* only the error counter.
C2_FailedPollKeepsObservations ==
    [][PollFails =>
        /\ gauges' = gauges
        /\ Observations(gauges') = Observations(gauges)
        /\ lastScrapeTimestamp' = lastScrapeTimestamp
        /\ scrapeErrorsTotal' # scrapeErrorsTotal]_vars

\* a poll has failed while observations of an earlier poll are published
C2_Witness ==
    /\ AfterFailure
    /\ hist.ok # 0
    /\ ~NoObservations(gauges)
    /\ Observations(gauges) = Observations(Projection(Snapshot(hist.ok)))

\* what a finished Gather holds of the six gauge vectors
GatheredGauges == [k \in Kinds |-> got[k][1]]

\* C3 (as stated): a /metrics read that runs while a poll succeeds returns the
\* complete observation set of the previous successful snapshot or the complete
\* set of the new one, never an empty or partial or mixed set.
C3_AsStated ==
    Gathered =>
        \/ GatheredGauges = Projection(Snapshot(hist.prev))
        \/ GatheredGauges = Projection(Snapshot(hist.ok))
        \/ GatheredGauges = Projection(Snapshot(hist.cur))

\* C4: once a successful poll has completed, every observation in the registry
\* is produced by the new snapshot, for all six kinds: none of an earlier
\* snapshot remains.
C4_NoStaleObservation ==
    AfterSuccess =>
        \A k \in Kinds : \A l \in DOMAIN gauges[k] :
            \E i \in Places(Snapshot(hist.ok)) :
                /\ HasPVC(Snapshot(hist.ok), i)
                /\ Present(Snapshot(hist.ok), i, k)
                /\ Triple(Snapshot(hist.ok), i) = l

\* a poll has completed whose snapshot lacks an observation the previous one had
C4_Witness ==
    /\ AfterSuccess
    /\ \E k \in Kinds : \E l \in DOMAIN Projection(Snapshot(hist.prev))[k] :
         l \notin DOMAIN gauges[k]

\* snapshot s has a volume without pvcRef / has volumes and none has a pvcRef
HasPlainVolume(s) == \E i \in Places(s) : ~HasPVC(s, i)
OnlyPlainVolumes(s) == Places(s) # {} /\ \A i \in Places(s) : ~HasPVC(s, i)

\* C5: a volume without pvcRef produces no observation and no error: a
\* response that is a well-formed snapshot with such a volume is a successful
\* poll that leaves the error counter alone, no observation of the finished
\* poll comes from anything but a PVC volume, and a snapshot without any PVC
\* volume leaves the registry without observations.
C5_PlainVolumeIgnored ==
    /\ [][(FetchReturns /\ ~StatusError(hist'.resp) /\ ~TransportError(hist'.resp)
              /\ ~Responses[hist'.resp].readErr /\ WellFormedBody(hist'.resp)
              /\ HasPlainVolume(Snapshot(hist'.resp)))
            => (scrapeErrorsTotal' = scrapeErrorsTotal /\ pc' = "reset")]_vars
    /\ [][PollSucceeds => scrapeErrorsTotal' = scrapeErrorsTotal]_vars
    /\ [](AfterSuccess =>
            /\ \A k \in Kinds : \A l \in DOMAIN gauges[k] :
                 \E i \in Places(Snapshot(hist.ok)) :
                    HasPVC(Snapshot(hist.ok), i) /\ Triple(Snapshot(hist.ok), i) = l
            /\ OnlyPlainVolumes(Snapshot(hist.ok)) => NoObservations(gauges))

\* a snapshot whose volumes all lack a pvcRef has replaced published observations
C5_Witness ==
    /\ AfterSuccess
    /\ OnlyPlainVolumes(Snapshot(hist.ok))
    /\ ~NoObservations(Projection(Snapshot(hist.prev)))
    /\ NoObservations(gauges)
    /\ scrapeErrorsTotal = 0

\* two PVC volumes of snapshot s, i before j, that map to one triple
SameTriple(s, i, j) ==
    /\ i \in Places(s) /\ j \in Places(s) /\ i < j
    /\ HasPVC(s, i) /\ HasPVC(s, j)
    /\ Triple(s, i) = Triple(s, j)

\* C6 (as stated): when two PVC volumes map to one triple, the registry holds
\* one observation per metric kind for the triple and its value is that of the
\* later volume.
C6_AsStated ==
    AfterSuccess =>
        \A i, j \in Places(Snapshot(hist.ok)) :
            (SameTriple(Snapshot(hist.ok), i, j)
               /\ \A m \in Places(Snapshot(hist.ok)) :
                    SameTriple(Snapshot(hist.ok), i, m) => m <= j) =>
                \A k \in Kinds :
                    /\ Triple(Snapshot(hist.ok), j) \in DOMAIN gauges[k]
                    /\ Present(Snapshot(hist.ok), j, k)
                    /\ gauges[k][Triple(Snapshot(hist.ok), j)]
                         = ToFloat64(Value(Snapshot(hist.ok), j, k))

\* C6 (amended): when two PVC volumes map to one triple, then for every metric
\* kind whose field the later volume has, the registry holds one observation
\* for the triple and its value is the float64 conversion of the later
\* volume's field; for a kind whose field the later volume lacks, the
\* observation of the earlier volume stays if it has the field, and there is
\* none if neither has it and no other volume maps to the triple.
C6_LastWriteWins ==
    AfterSuccess =>
        LET s == Snapshot(hist.ok)
        IN  \A i, j \in Places(s) :
              (SameTriple(s, i, j) /\ \A m \in Places(s) : SameTriple(s, i, m) => m <= j) =>
                \A k \in Kinds :
                    IF Present(s, j, k)
                    THEN /\ Triple(s, j) \in DOMAIN gauges[k]
                         /\ gauges[k][Triple(s, j)] = ToFloat64(Value(s, j, k))
                    ELSE IF Present(s, i, k)
                            /\ \A m \in Places(s) :
                                 (i < m /\ SameTriple(s, i, m)) => ~Present(s, m, k)
                    THEN /\ Triple(s, j) \in DOMAIN gauges[k]
                         /\ gauges[k][Triple(s, j)] = ToFloat64(Value(s, i, k))
                    ELSE (\A m \in Places(s) :
                            (HasPVC(s, m) /\ Triple(s, m) = Triple(s, j)) => ~Present(s, m, k))
                            => Triple(s, j) \notin DOMAIN gauges[k]

\* a poll has published two volumes of one triple: the later value of a field
\* both have, and the earlier value of a field only the earlier has
C6_Witness ==
    /\ AfterSuccess
    /\ \E i, j \in Places(Snapshot(hist.ok)) : \E k1, k2 \in Kinds :
         /\ SameTriple(Snapshot(hist.ok), i, j)
         /\ Present(Snapshot(hist.ok), i, k1) /\ Present(Snapshot(hist.ok), j, k1)
         /\ Value(Snapshot(hist.ok), i, k1) # Value(Snapshot(hist.ok), j, k1)
         /\ gauges[k1][Triple(Snapshot(hist.ok), j)] = ToFloat64(Value(Snapshot(hist.ok), j, k1))
         /\ Present(Snapshot(hist.ok), i, k2) /\ ~Present(Snapshot(hist.ok), j, k2)
         /\ gauges[k2][Triple(Snapshot(hist.ok), j)] = ToFloat64(Value(Snapshot(hist.ok), i, k2))

\* C7 (as stated): every published observation carries a non-empty
\* persistentvolumeclaim label, in every state of the registry.
C7_AsStated ==
    \A k \in Kinds : \A l \in DOMAIN gauges[k] : l.persistentvolumeclaim # ""

\* C8: the error counter equals the number of failed polls so far; a failed
\* poll of any kind adds exactly 1 and no other step changes it.
C8_ErrorCounterCountsFailures ==
    /\ [](scrapeErrorsTotal = hist.failed)
    /\ [][IF PollFails THEN scrapeErrorsTotal' = scrapeErrorsTotal + 1
                       ELSE scrapeErrorsTotal' = scrapeErrorsTotal]_vars

\* failures of two kinds and a success in between have been counted
C8_Witness ==
    /\ AfterFailure
    /\ StatusError(hist.resp)
    /\ hist.succeeded > 0
    /\ scrapeErrorsTotal = 2

\* C9: the timestamp is set only by successful polls: the step that completes
\* a successful poll sets it to the time of that step, every other step, a
\* failed poll included, leaves it as it is; it is 0 until a poll succeeds.
C9_TimestampOnlyOnSuccess ==
    /\ [][IF PollSucceeds THEN lastScrapeTimestamp' = now
                          ELSE lastScrapeTimestamp' = lastScrapeTimestamp]_vars
    /\ [](hist.succeeded = 0 => lastScrapeTimestamp = 0)
    /\ [](hist.succeeded > 0 => lastScrapeTimestamp > 0)

\* a poll has failed later than the successful poll whose time the gauge shows
C9_Witness ==
    /\ AfterFailure
    /\ hist.succeeded > 0
    /\ lastScrapeTimestamp > 0
    /\ lastScrapeTimestamp < now

\* C10: a response with a status other than 200 is a failed poll, also when
\* its body is a well-formed snapshot: nothing is decoded or projected, the
\* error counter goes up by 1, the timestamp and the observations stay.
C10_Non200Fails ==
    [][(FetchReturns /\ StatusError(hist'.resp)) =>
        /\ pc' = "idle"
        /\ stats' = stats
        /\ gauges' = gauges
        /\ scrapeErrorsTotal' = scrapeErrorsTotal + 1
        /\ lastScrapeTimestamp' = lastScrapeTimestamp]_vars

\* a non-200 response with a well-formed snapshot as its body has been
\* received while other observations are published
C10_Witness ==
    /\ AfterFailure
    /\ StatusError(hist.resp)
    /\ WellFormedBody(hist.resp)
    /\ ~NoObservations(Projection(Snapshot(hist.resp)))
    /\ ~NoObservations(gauges)
    /\ gauges # Projection(Snapshot(hist.resp))

\* the body of response i has a PVC volume that decodes although the document
\* as a whole does not
DecodesInPart(i) ==
    /\ Responses[i].syntaxOK /\ Responses[i].doc.t = "obj"
    /\ Responses[i].doc.v.pods.t = "arr"
    /\ \E p \in 1..Len(Responses[i].doc.v.pods.v) :
         /\ Responses[i].doc.v.pods.v[p].t = "obj"
         /\ Responses[i].doc.v.pods.v[p].v.volume.t = "arr"
         /\ \E v \in 1..Len(Responses[i].doc.v.pods.v[p].v.volume.v) :
              /\ CanDecodeVolumeStats(Responses[i].doc.v.pods.v[p].v.volume.v[v])
              /\ Responses[i].doc.v.pods.v[p].v.volume.v[v].v.pvcRef.t = "obj"
              /\ Responses[i].doc.v.pods.v[p].v.volume.v[v].v.capacityBytes.t = "num"

\* C11: a 200 response whose body is malformed JSON, or has a member of the
\* wrong shape, fails the whole poll: updateMetrics is not entered, the error
\* counter goes up by exactly 1, and the observations and the timestamp stay
\* as they were, also when a part of the document did decode.
C11_DecodeErrorFailsWholePoll ==
    [][(FetchReturns /\ DecodeError(hist'.resp)) =>
        /\ pc' = "idle"
        /\ stats' = stats
        /\ gauges' = gauges
        /\ Observations(gauges') = Observations(gauges)
        /\ scrapeErrorsTotal' = scrapeErrorsTotal + 1
        /\ lastScrapeTimestamp' = lastScrapeTimestamp]_vars

\* a document of which one PVC volume decodes and a later one does not has
\* been received while the observations of another snapshot are published
C11_Witness ==
    /\ AfterFailure
    /\ DecodeError(hist.resp)
    /\ DecodesInPart(hist.resp)
    /\ hist.ok # 0
    /\ ~NoObservations(gauges)
    /\ gauges = Projection(Snapshot(hist.ok))

\* the file content f is a credential: readable and not empty
IsCredential(f) == Len(f) = 1 /\ f[1] # ""
\* the request r carries the bearer header of the credential f / no Authorization
HasBearer(r, f) == r.Authorization = <<<<"Bearer", f[1]>>>>
NoAuthorization(r) == r.Authorization = <<>>
\* the request r is the one a poll sends when the credential file holds f
RequestFor(r, f) == IF IsCredential(f) THEN HasBearer(r, f) ELSE NoAuthorization(r)

\* C12 (as stated): the request of every poll after the first carries the
\* credential that the file holds at the time of that poll, whatever the file
\* held at the polls before: the file is read again on every poll.
C12_AsStated ==
    [][(FetchReturns /\ hist.resp # 0) => RequestFor(request'[1], tokenFile)]_vars

\* C13: an unreadable credential file does not stop the start of the process;
\* the request of every poll carries a bearer header exactly when the file
\* was readable and not empty when main read it, and then with that content.
C13_UnreadableTokenNotFatal ==
    [][/\ (main = "boot" /\ main' # main) => main' = "wait"
       /\ FetchReturns => RequestFor(request'[1], hist.file)]_vars

\* the file was unreadable at the start, and a poll without Authorization
\* header has been sent and has succeeded
C13_Witness ==
    /\ main = "wait"
    /\ hist.file = <<>>
    /\ AfterSuccess
    /\ request # <<>>
    /\ NoAuthorization(request[1])

\* the step in which a collection begins
CollectionBegins == pc # "fetch" /\ pc' = "fetch"
Collecting == pc \in {"fetch", "reset", "write", "stamp"}

\* C14: the first step of the loop is a collection, begun with no tick
\* consumed; the loop never comes back to its start; and every other
\* collection begins from Idle by consuming the pending tick.
C14_EagerThenTickDriven ==
    [][/\ (pc = "start" /\ pc' # pc) => pc' \in {"fetch", "killed"}
       /\ pc # "start" => pc' # "start"
       /\ CollectionBegins =>
            \/ pc = "start" /\ hist.resp = 0 /\ ~tickPending /\ ~tickPending'
            \/ pc = "idle" /\ tickPending /\ ~tickPending']_vars

\* a collection begun by a tick is in flight, after the eager one has ended
C14_Witness ==
    /\ pc = "fetch"
    /\ hist.resp # 0
    /\ hist.cur = 0
    /\ now > 1
    /\ ~tickPending

\* C15: never more than one call of collectOnce is in flight, a collection
\* begins only when none is, and the registry changes only in a step of the
\* one collection in flight.
C15_OneCollectionInFlight ==
    [][/\ inFlight' <= 1
       /\ CollectionBegins => inFlight = 0
       /\ registry' # registry => (inFlight = 1 /\ Collecting)]_vars

\* the ticker has fired while a collection begun by an earlier tick is still
\* writing the registry
C15_Witness ==
    /\ pc = "write"
    /\ inFlight = 1
    /\ tickPending
    /\ hist.failed + hist.succeeded > 0
    /\ now > 2

\* C16 (as stated): once main has received the signal, the loop begins no
\* collection from Idle, whether a tick is pending or not, during
\* server.Shutdown and after it.
C16_AsStated ==
    [][(main \notin {"boot", "wait"} /\ pc = "idle") => pc' # "fetch"]_vars

\* C17: a failed poll puts the loop back to Idle and changes nothing of main,
\* the server or the context; and a tick that is pending when the loop is
\* Idle after a failed poll leads to a new collection, unless the context is
\* cancelled or the process ends first.
C17_FailedPollNeverStopsLoop ==
    /\ [][PollFails => (pc' = "idle" /\ UNCHANGED lifecycle)]_vars
    /\ (AfterFailure /\ pc = "idle" /\ tickPending) ~> (pc \in {"fetch", "returned", "killed"})

\* a third attempt has begun after two failed polls in a row
C17_Witness ==
    /\ pc = "fetch"
    /\ main = "wait"
    /\ hist.failed = 2
    /\ hist.succeeded = 0
    /\ scrapeErrorsTotal = 2

\* C18: every response of /health is 200 "OK" and every response of /ready
\* is 200 "Ready", whatever the loop does and whatever the registry holds.
C18_ProbesAlwaysOK ==
    probe # <<>> =>
        /\ probe[1].code = 200
        /\ probe[1].body = (IF probe[1].path = "/health" THEN "OK" ELSE "Ready")

\* /ready has answered, and a poll is in progress after only failed polls
C18_Witness ==
    /\ probe # <<>>
    /\ probe[1].path = "/ready"
    /\ pc = "fetch"
    /\ hist.failed > 0
    /\ hist.succeeded = 0
    /\ lastScrapeTimestamp = 0
    /\ NoObservations(gauges)

\* a step of one of the three handlers
Serving == rpc' # rpc \/ got' # got \/ probe' # probe

\* C19: a step of the handler of /metrics, /health or /ready begins no
\* collection, moves the loop nowhere, consumes no tick, and changes neither
\* the observations nor the error counter nor the timestamp.
C19_ServingIsReactive ==
    [][Serving =>
        /\ ~CollectionBegins
        /\ UNCHANGED <<pc, inFlight, tickPending, request>>
        /\ UNCHANGED <<gauges, scrapeErrorsTotal, lastScrapeTimestamp>>
        /\ Observations(gauges') = Observations(gauges)]_vars

\* /metrics is being served and a probe has been, while the loop is Idle
\* with no tick pending and publishes observations
C19_Witness ==
    /\ rpc = "gathering"
    /\ \E c \in Collectors : got[c] # <<>>
    /\ probe # <<>>
    /\ pc = "idle"
    /\ ~tickPending
    /\ ~NoObservations(gauges)

\* the step in which the process ends with a failure status
FatalExit == main # "exit1" /\ main' = "exit1"

\* C20: the process ends with a failure only in the step in which the server
\* that has not bound its port fails; that step ends the loop at once, in
\* whatever state it is, and is not a step of a poll; no failed poll ends
\* the process.
C20_OnlyBindFailureIsFatal ==
    [][/\ FatalExit =>
            /\ server = "init" /\ server' = "closed"
            /\ pc' = "killed" /\ inFlight' = 0
            /\ UNCHANGED <<hist, request, scrapeErrorsTotal>>
       /\ PollFails => main' = main]_vars

\* the bind has failed while a collection was writing the registry
C20_Witness ==
    /\ main = "exit1"
    /\ pc = "killed"
    /\ hist.cur # 0
    /\ ~NoObservations(gauges)
    /\ lastScrapeTimestamp = 0

\* main has received the signal / the process has ended
Signalled == main \in {"shutdown", "return", "cancelled"}
Exited == main \in {"exit0", "exit1"}

UniqueTriple(s, i) ==
    \A j \in Places(s) : (j # i /\ HasPVC(s, j)) => Triple(s, j) # Triple(s, i)

\* C23: after a successful poll, for every PVC volume whose triple no other
\* volume of the snapshot shares, each of the six kinds has an observation
\* under that triple if and only if the volume has the field of that kind.
C23_FieldsProjectedIndependently ==
    AfterSuccess =>
        \A i \in Places(Snapshot(hist.ok)) :
            (HasPVC(Snapshot(hist.ok), i) /\ UniqueTriple(Snapshot(hist.ok), i)) =>
                \A k \in Kinds :
                    Triple(Snapshot(hist.ok), i) \in DOMAIN gauges[k]
                        <=> Present(Snapshot(hist.ok), i, k)

\* a volume with capacityBytes alone has been polled: the registry holds its
\* capacity and nothing else
C23_Witness ==
    /\ AfterSuccess
    /\ \E i \in Places(Snapshot(hist.ok)) :
         /\ HasPVC(Snapshot(hist.ok), i) /\ UniqueTriple(Snapshot(hist.ok), i)
         /\ Present(Snapshot(hist.ok), i, 1)
         /\ \A k \in Kinds \ {1} : ~Present(Snapshot(hist.ok), i, k)
         /\ DOMAIN gauges[1] = {Triple(Snapshot(hist.ok), i)}
         /\ \A k \in Kinds \ {1} : DOMAIN gauges[k] = {}

\* snapshot s with every ephemeral-storage record removed
WithoutEphemeral(s) ==
    [Pods |-> [p \in 1..Len(s.Pods) |-> [s.Pods[p] EXCEPT !.Ephemeral = <<>>]]]

\* C24: after a successful poll the registry holds the projection of the
\* snapshot with its ephemeral-storage records removed, and every observation
\* comes from an entry of some pod's volume list.
C24_EphemeralNeverProjected ==
    AfterSuccess =>
        /\ gauges = Projection(WithoutEphemeral(Snapshot(hist.ok)))
        /\ \A k \in Kinds : \A l \in DOMAIN gauges[k] :
             \E p \in 1..Len(Snapshot(hist.ok).Pods) :
                \E v \in 1..Len(Snapshot(hist.ok).Pods[p].Volume) :
                    /\ Len(Snapshot(hist.ok).Pods[p].Volume[v].PVCRef) = 1
                    /\ Len(Snapshot(hist.ok).Pods[p].Volume[v][Fields[k]]) = 1
                    /\ l.namespace = Snapshot(hist.ok).Pods[p].PodRef.Namespace
                    /\ l.pod = Snapshot(hist.ok).Pods[p].PodRef.Name
                    /\ l.persistentvolumeclaim
                         = Snapshot(hist.ok).Pods[p].Volume[v].PVCRef[1].Name

\* a snapshot has been polled whose ephemeral-storage record has a pvcRef of
\* a claim no volume has, and all six numbers: nothing is published for it
C24_Witness ==
    /\ AfterSuccess
    /\ ~NoObservations(gauges)
    /\ \E p \in 1..Len(Snapshot(hist.ok).Pods) :
         /\ Len(Snapshot(hist.ok).Pods[p].Ephemeral) = 1
         /\ Len(Snapshot(hist.ok).Pods[p].Ephemeral[1].PVCRef) = 1
         /\ \A k \in Kinds : Len(Snapshot(hist.ok).Pods[p].Ephemeral[1][Fields[k]]) = 1
         /\ \A k \in Kinds : \A l \in DOMAIN gauges[k] :
              l.persistentvolumeclaim
                # Snapshot(hist.ok).Pods[p].Ephemeral[1].PVCRef[1].Name

\* C25: a collection that a tick starts leaves no tick pending, and at least
\* one tick has fired since the collection before it began: after a poll
\* that overran several intervals one collection follows at once, and the
\* next one waits for the ticker to fire again; the collections never overlap.
C25_TicksCoalesced ==
    [][(pc = "idle" /\ pc' = "fetch") =>
        /\ hist.fired >= 1
        /\ tickPending /\ ~tickPending'
        /\ inFlight = 0 /\ inFlight' = 1]_vars

\* the ticker has fired twice before the second collection began; that one
\* collection has ended, and no tick is pending
C25_Witness ==
    /\ pc = "idle"
    /\ ~tickPending
    /\ hist.fired = 0
    /\ now = 3
    /\ hist.failed + hist.succeeded = 2

\* C26: in every state between two polls whose last poll was successful the
\* registry is the projection of that poll's snapshot alone, whatever polls
\* came before it, successful or failed, of the same snapshot or of others.
C26_PollIdempotentHistoryFree ==
    AfterSuccess =>
        /\ gauges = Projection(Snapshot(hist.ok))
        /\ Observations(gauges) = Observations(Projection(Snapshot(hist.ok)))
        /\ (hist.prev = hist.ok => gauges = Projection(Snapshot(hist.prev)))

\* the same snapshot has been polled successfully twice, with a failed poll
\* somewhere before the second success
C26_Witness ==
    /\ AfterSuccess
    /\ hist.prev = hist.ok
    /\ hist.succeeded = 2
    /\ hist.failed = 1
    /\ ~NoObservations(gauges)

\* C27: whenever the loop is Idle the registry is the projection of the
\* snapshot of the most recent successful poll, and empty if none has
\* succeeded, whatever polls have failed since and whatever /metrics
\* requests have been or are being served.
C27_IdleRegistryIsLastSuccess ==
    pc = "idle" =>
        /\ gauges = Projection(Snapshot(hist.ok))
        /\ (hist.succeeded = 0 => NoObservations(gauges))

\* the loop is Idle after a failed poll that followed a successful one, a
\* /metrics request has been served and another is being served
C27_Witness ==
    /\ pc = "idle"
    /\ AfterFailure
    /\ hist.ok # 0
    /\ ~NoObservations(gauges)
    /\ rpc = "gathering"
    /\ \E c \in Collectors : got[c] # <<>>
    /\ \E c \in Collectors : got[c] = <<>>

NoPods(i) == ~Failure(i) /\ Len(Snapshot(i).Pods) = 0

\* C29: a 200 response that decodes to a snapshot without pods makes a
\* successful poll: fetchStats returns it to updateMetrics with the error
\* counter as it was, and when the poll ends the registry holds no
\* observation, the timestamp is the time of the poll and the error counter
\* is still as it was.
C29_EmptySnapshotIsSuccess ==
    [][/\ (FetchReturns /\ NoPods(hist'.resp)) =>
            /\ pc' = "reset"
            /\ scrapeErrorsTotal' = scrapeErrorsTotal
       /\ (PollSucceeds /\ NoPods(hist.resp)) =>
            /\ NoObservations(gauges')
            /\ lastScrapeTimestamp' = now
            /\ scrapeErrorsTotal' = scrapeErrorsTotal]_vars

\* a snapshot without pods has been polled after one that had published
\* observations: none is left, and the timestamp is the later poll's
C29_Witness ==
    /\ AfterSuccess
    /\ NoPods(hist.ok)
    /\ hist.prev # 0
    /\ ~NoObservations(Projection(Snapshot(hist.prev)))
    /\ NoObservations(gauges)
    /\ lastScrapeTimestamp > 1
    /\ scrapeErrorsTotal = 0

====
